---- MODULE Spec2Model ----
(***************************************************************************)
(* Model of dl4ds/models/sp_preups.py: the two pre-upsampling builders     *)
(* net_pin and unet_pin and the depth validator _check_nblocks.            *)
(*                                                                         *)
(* A builder call is a deterministic walk through the statements of the    *)
(* function; `pc` is the position in the function, the other variables are *)
(* the function's local names.  The graph under construction is `nodes`,   *)
(* the sequence of layer calls made so far; a tensor is the record of the  *)
(* node that produced it, its output port, its channel count, whether its  *)
(* spatial shape is static, and its level (number of halvings relative to  *)
(* the input grid).                                                        *)
(*                                                                         *)
(* Pass-through arguments that never influence the wiring (activation,     *)
(* normalization, attention, output_activation, n_channels_out) are not    *)
(* enumerated.  dropout_rate is an integer percentage.                     *)
(***************************************************************************)
EXTENDS Integers, Sequences, FiniteSets, TLC

VARIABLES fn, args, pc, calls, prevErr, err, model, nodes,
          backbone_block, dropout_variant, n_blocks, n_filters,
          power, ndiag, s_in, x_in, x, b, i, j,
          enconding_filters, n_filters_list

vars == <<fn, args, pc, calls, prevErr, err, model, nodes,
          backbone_block, dropout_variant, n_blocks, n_filters,
          power, ndiag, s_in, x_in, x, b, i, j,
          enconding_filters, n_filters_list>>

(* ------------------------------ bounds -------------------------------- *)

\* direct calls of _check_nblocks: dimensions 1..MaxDim and 2^MaxDimLog
MaxDim == 9
MaxDimLog == 8
\* direct calls of _check_nblocks: requested depth 0..MaxDepth
MaxDepth == 7
\* builder calls: n_blocks in 0..MaxBlocks
MaxBlocks == 5
\* builder calls: n_aux_channels in 0..MaxAux
MaxAux == 1
\* a failed or finished call may be repeated with the same arguments
MaxCalls == 2

(* --------------------------- program constants ------------------------ *)

FilterCap == 256

Backbones == {"convnet", "resnet", "densenet"}
DropoutVariants == {"None", "gaussian", "spatial", "mcdrop", "mcgaussiandrop",
                    "mcspatialdrop"}
Upsamplings == {"spc", "rc", "dc"}

(* ------------------------------ tensors ------------------------------- *)

NoTensor == [kind |-> "none", node |-> 0, port |-> 0, fixed |-> FALSE,
             level |-> 0, ch |-> 0]

\* a layer object that was constructed but never called on a tensor
LayerObject(layer) == [kind |-> layer, node |-> 0, port |-> 0, fixed |-> FALSE,
                       level |-> 0, ch |-> 0]

IsTensor(t) == t.kind = "tensor"

AllTensors(ins) == \A k \in 1..Len(ins) : IsTensor(ins[k])

RECURSIVE SumCh(_)
SumCh(ins) == IF ins = <<>> THEN 0 ELSE Head(ins).ch + SumCh(Tail(ins))

Min(a, c) == IF a <= c THEN a ELSE c

\* channel count of the output of a layer call
OutCh(nd) ==
    CASE nd.layer \in {"Concatenate", "PadConcat"} -> SumCh(nd.ins)
      [] nd.layer \in {"Add", "UpSampling2D", "Dropout", "GaussianDropout",
                       "SpatialDropout2D", "MCDropout", "MCGaussianDropout",
                       "MCSpatialDropout2D"} -> nd.ins[1].ch
      [] nd.layer = "DenseBlock" -> nd.ins[1].ch + nd.filters
      [] OTHER -> nd.filters

\* level of the output: an EncoderBlock's first output is halved, its second
\* (the skip tensor) is not; the three upsamplings double; PadConcat pads the
\* smaller input to the larger one
OutLevel(nd, port) ==
    CASE nd.layer = "Input" -> 0
      [] nd.layer = "EncoderBlock" ->
            IF port = 0 THEN nd.ins[1].level + 1 ELSE nd.ins[1].level
      [] nd.layer \in {"UpSampling2D", "SubpixelConvolutionBlock",
                       "DeconvolutionBlock"} -> nd.ins[1].level - 1
      [] nd.layer = "PadConcat" -> Min(nd.ins[1].level, nd.ins[2].level)
      [] OTHER -> nd.ins[1].level

OutFixed(nd) ==
    IF nd.layer = "Input" THEN nd.shape # <<0, 0>> ELSE nd.ins[1].fixed

\* Input(shape=(h, w, ch)); shape <<0, 0>> stands for (None, None)
InputNode(shape, ch) ==
    [layer |-> "Input", name |-> <<"", 0>>, filters |-> ch, ins |-> <<>>,
     shape |-> shape]

\* a layer call; name is the name or name_suffix argument as <<text, number>>,
\* <<"", 0>> when the call passes none
LayerNode(layer, name, filters, ins) ==
    [layer |-> layer, name |-> name, filters |-> filters, ins |-> ins,
     shape |-> <<0, 0>>]

\* the graph g with one more layer call
CallNamed(g, layer, name, filters, ins) ==
    Append(g, LayerNode(layer, name, filters, ins))

Call(g, layer, filters, ins) == CallNamed(g, layer, <<"", 0>>, filters, ins)

\* output `port` of the last layer call of g
Out(g, port) ==
    [kind |-> "tensor", node |-> Len(g), port |-> port,
     fixed |-> OutFixed(g[Len(g)]), level |-> OutLevel(g[Len(g)], port),
     ch |-> OutCh(g[Len(g)])]

Reverse(s) == [k \in 1..Len(s) |-> s[Len(s) + 1 - k]]

NoModel == [inputs |-> <<>>, outputs |-> NoTensor, name |-> ""]

(* ------------------------- argument validators ------------------------ *)

\* checkarg_backbone / checkarg_dropout_variant: the canonical value, or an
\* argument error
BackboneOk(v) == v \in Backbones
DropoutVariantOk(v) == v \in DropoutVariants

(* --------------------------- _check_nblocks --------------------------- *)

\* n // 2**p in Python: integer floor division for p >= 0; for p < 0 the
\* divisor is the float 2**p = 1 / 2^(-p) and the quotient is n * 2^(-p)
FloorDivPow2(n, p) == IF p >= 0 THEN n \div (2 ^ p) ELSE n * (2 ^ (0 - p))

\* the loop condition with `and` in the place of `or`
TooDeepBothOnly(shape, p) ==
    FloorDivPow2(shape[1], p) < 2 /\ FloorDivPow2(shape[2], p) < 2

\* the loop condition
TooDeep(shape, p) ==
    FloorDivPow2(shape[1], p) < 2 \/ FloorDivPow2(shape[2], p) < 2

locals == <<backbone_block, dropout_variant, n_filters, s_in, x_in, x, b, i, j,
            enconding_filters, n_filters_list>>
frame == <<fn, args, calls, prevErr>>

\* one iteration of the while loop: a diagnostic and power -= 1
CheckNblocksLoop ==
    /\ pc = "check_nblocks"
    /\ TooDeep(args.hr_size, power)
    /\ power' = power - 1
    /\ ndiag' = ndiag + 1
    /\ UNCHANGED <<frame, pc, err, model, nodes, n_blocks, locals>>

\* return power; in unet_pin the caller rebinds n_blocks to it
CheckNblocksReturn ==
    /\ pc = "check_nblocks"
    /\ ~TooDeep(args.hr_size, power)
    /\ n_blocks' = power
    /\ pc' = IF fn = "unet_pin" THEN "inputs" ELSE "done"
    /\ UNCHANGED <<frame, err, model, nodes, power, ndiag, locals>>


(* ------------------------- shared by the builders --------------------- *)

\* the validation with the dropout variant left unchecked
ArgsRejectedBackboneOnly == ~BackboneOk(backbone_block)

\* backbone_block = checkarg_backbone(backbone_block);
\* dropout_variant = checkarg_dropout_variant(dropout_variant):
\* either call raises an argument error
ArgsRejected ==
    ~BackboneOk(backbone_block) \/ ~DropoutVariantOk(dropout_variant)

\* the test with >= in the place of >
AuxvarArrayIsGivenAlways == args.n_aux_channels >= 0

\* auxvar_array_is_given = True if n_aux_channels > 0 else False
AuxvarArrayIsGiven == args.n_aux_channels > 0

\* the layer each dropout variant applies to b
DropoutLayer(v) ==
    CASE v = "None" -> "Dropout"
      [] v = "gaussian" -> "GaussianDropout"
      [] v = "spatial" -> "SpatialDropout2D"
      [] v = "mcdrop" -> "MCDropout"
      [] v = "mcgaussiandrop" -> "MCGaussianDropout"
      [] v = "mcspatialdrop" -> "MCSpatialDropout2D"

\* the variants whose branch calls the layer on b (b = Layer(rate)(b))
DropoutCalled == {"None", "gaussian", "spatial", "mcdrop"}

\* the variants whose branch binds b to the layer itself (b = Layer(rate))
DropoutBound == {"mcgaussiandrop", "mcspatialdrop"}

(* -------------------------------- net_pin ----------------------------- *)

\* shape of s_in: (None, None) unless localcon_layer
NetAuxInputShape == IF ~args.localcon_layer THEN <<0, 0>> ELSE args.hr_size

\* shape of x_in: (None, None) unless localcon_layer
NetInputShape == IF ~args.localcon_layer THEN <<0, 0>> ELSE args.hr_size

NetCheckArgs ==
    /\ fn = "net_pin"
    /\ pc = "start"
    /\ IF ArgsRejected
       THEN pc' = "error" /\ err' = "ValueError"
       ELSE pc' = "inputs" /\ err' = err
    /\ UNCHANGED <<frame, model, nodes, n_blocks, power, ndiag, locals>>

\* the Input layers and the first convolution; x = b = Conv2D(...)(x_in)
NetInputs ==
    /\ fn = "net_pin"
    /\ pc = "inputs"
    /\ LET g1 == IF AuxvarArrayIsGiven
                 THEN Append(nodes, InputNode(NetAuxInputShape, args.n_aux_channels))
                 ELSE nodes
           g2 == Append(g1, InputNode(NetInputShape, args.n_channels))
           g3 == Call(g2, "Conv2D", n_filters, <<Out(g2, 0)>>)
       IN  /\ s_in' = IF AuxvarArrayIsGiven THEN Out(g1, 0) ELSE NoTensor
           /\ x_in' = Out(g2, 0)
           /\ x' = Out(g3, 0)
           /\ b' = Out(g3, 0)
           /\ nodes' = g3
    /\ i' = 0
    /\ pc' = "blocks"
    /\ UNCHANGED <<frame, err, model, backbone_block, dropout_variant, n_blocks,
                   n_filters, power, ndiag, j, enconding_filters, n_filters_list>>

\* one iteration of for i in range(n_blocks)
NetBlock ==
    /\ fn = "net_pin"
    /\ pc = "blocks"
    /\ i < n_blocks
    /\ LET g1 == CASE backbone_block = "convnet" ->
                        Call(nodes, "ConvBlock", n_filters, <<b>>)
                   [] backbone_block = "resnet" ->
                        Call(nodes, "ResidualBlock", n_filters, <<b>>)
                   [] backbone_block = "densenet" ->
                        Call(nodes, "DenseBlock", n_filters, <<b>>)
                   [] OTHER -> nodes
           g2 == IF backbone_block = "densenet"
                 THEN Call(g1, "TransitionBlock", n_filters \div 2, <<Out(g1, 0)>>)
                 ELSE g1
       IN  nodes' = g2 /\ b' = IF g2 = nodes THEN b ELSE Out(g2, 0)
    /\ i' = i + 1
    /\ UNCHANGED <<frame, pc, err, model, backbone_block, dropout_variant,
                   n_blocks, n_filters, power, ndiag, s_in, x_in, x, j,
                   enconding_filters, n_filters_list>>

\* b = Conv2D(n_filters, (3, 3), padding='same')(b) after the loop
NetPostConv ==
    /\ fn = "net_pin"
    /\ pc = "blocks"
    /\ ~(i < n_blocks)
    /\ LET g1 == Call(nodes, "Conv2D", n_filters, <<b>>)
       IN  nodes' = g1 /\ b' = Out(g1, 0)
    /\ pc' = "dropout"
    /\ UNCHANGED <<frame, err, model, backbone_block, dropout_variant, n_blocks,
                   n_filters, power, ndiag, s_in, x_in, x, i, j,
                   enconding_filters, n_filters_list>>

\* if dropout_rate > 0: the branch of the dropout variant
NetDropout ==
    /\ fn = "net_pin"
    /\ pc = "dropout"
    /\ IF args.dropout_rate > 0
       THEN IF dropout_variant \in DropoutCalled
            THEN LET g1 == Call(nodes, DropoutLayer(dropout_variant), 0, <<b>>)
                 IN  nodes' = g1 /\ b' = Out(g1, 0)
            ELSE IF dropout_variant \in DropoutBound
                 THEN nodes' = nodes
                      /\ b' = LayerObject(DropoutLayer(dropout_variant))
                 ELSE nodes' = nodes /\ b' = b
       ELSE nodes' = nodes /\ b' = b
    /\ pc' = "merge"
    /\ UNCHANGED <<frame, err, model, backbone_block, dropout_variant, n_blocks,
                   n_filters, power, ndiag, s_in, x_in, x, i, j,
                   enconding_filters, n_filters_list>>

\* convnet: x = b; resnet: x = Add()([x, b]); densenet: x = Concatenate()([x, b]).
\* A layer called on something that is not a tensor raises.
NetMerge ==
    /\ fn = "net_pin"
    /\ pc = "merge"
    /\ IF backbone_block = "convnet"
       THEN x' = b /\ nodes' = nodes /\ pc' = "localcon" /\ err' = err
       ELSE IF backbone_block \notin {"resnet", "densenet"}
            THEN x' = x /\ nodes' = nodes /\ pc' = "localcon" /\ err' = err
            ELSE IF ~AllTensors(<<x, b>>)
            THEN x' = x /\ nodes' = nodes /\ pc' = "error" /\ err' = "TypeError"
            ELSE LET g1 == Call(nodes, IF backbone_block = "resnet" THEN "Add"
                                       ELSE "Concatenate", 0, <<x, b>>)
                 IN  x' = Out(g1, 0) /\ nodes' = g1 /\ pc' = "localcon" /\ err' = err
    /\ UNCHANGED <<frame, model, backbone_block, dropout_variant, n_blocks,
                   n_filters, power, ndiag, s_in, x_in, b, i, j,
                   enconding_filters, n_filters_list>>

(* ------------------- the tail common to both builders ----------------- *)

\* if localcon_layer: lws = LocalizedConvBlock(filters=2)(x); x = Concatenate()([x, lws])
Localcon ==
    /\ pc = "localcon"
    /\ IF ~args.localcon_layer
       THEN x' = x /\ nodes' = nodes /\ pc' = "aux" /\ err' = err
       ELSE IF ~IsTensor(x)
            THEN x' = x /\ nodes' = nodes /\ pc' = "error" /\ err' = "TypeError"
            ELSE LET g1 == Call(nodes, "LocalizedConvBlock", 2, <<x>>)
                     g2 == Call(g1, "Concatenate", 0, <<x, Out(g1, 0)>>)
                 IN  x' = Out(g2, 0) /\ nodes' = g2 /\ pc' = "aux" /\ err' = err
    /\ UNCHANGED <<frame, model, backbone_block, dropout_variant, n_blocks,
                   n_filters, power, ndiag, s_in, x_in, b, i, j,
                   enconding_filters, n_filters_list>>

\* if auxvar_array_is_given: s = ConvBlock(n_filters, ...)(s_in); x = Concatenate()([x, s])
AuxFusion ==
    /\ pc = "aux"
    /\ IF ~AuxvarArrayIsGiven
       THEN x' = x /\ nodes' = nodes /\ pc' = "head" /\ err' = err
       ELSE LET g1 == Call(nodes, "ConvBlock", n_filters, <<s_in>>)
                g2 == Call(g1, "Concatenate", 0, <<x, Out(g1, 0)>>)
            IN  IF ~IsTensor(x)
                THEN x' = x /\ nodes' = g1 /\ pc' = "error" /\ err' = "TypeError"
                ELSE x' = Out(g2, 0) /\ nodes' = g2 /\ pc' = "head" /\ err' = err
    /\ UNCHANGED <<frame, model, backbone_block, dropout_variant, n_blocks,
                   n_filters, power, ndiag, s_in, x_in, b, i, j,
                   enconding_filters, n_filters_list>>

\* the two last ConvBlocks: n_filters, then n_channels_out
LastConvs ==
    /\ pc = "head"
    /\ IF ~IsTensor(x)
       THEN x' = x /\ nodes' = nodes /\ pc' = "error" /\ err' = "TypeError"
       ELSE LET g1 == Call(nodes, "ConvBlock", n_filters, <<x>>)
                g2 == Call(g1, "ConvBlock", args.n_channels_out, <<Out(g1, 0)>>)
            IN  x' = Out(g2, 0) /\ nodes' = g2 /\ pc' = "return" /\ err' = err
    /\ UNCHANGED <<frame, model, backbone_block, dropout_variant, n_blocks,
                   n_filters, power, ndiag, s_in, x_in, b, i, j,
                   enconding_filters, n_filters_list>>

\* return Model(inputs=[x_in, s_in] or [x_in], outputs=x, name=backbone_block + '_pin')
ReturnModel ==
    /\ pc = "return"
    /\ model' = [inputs |-> IF AuxvarArrayIsGiven THEN <<x_in, s_in>> ELSE <<x_in>>,
                 outputs |-> x,
                 name |-> <<backbone_block, "_pin">>]
    /\ pc' = "done"
    /\ UNCHANGED <<frame, err, nodes, n_blocks, power, ndiag, locals>>


(* ------------------------------- unet_pin ----------------------------- *)

\* the shape of s_in without the test of squareness
UnetAuxInputShapeNoSquare ==
    IF ~args.localcon_layer THEN <<0, 0>> ELSE args.hr_size

\* shape of s_in: (None, None) only if not localcon_layer and h_hr == w_hr
UnetAuxInputShape ==
    IF ~args.localcon_layer /\ args.hr_size[1] = args.hr_size[2]
    THEN <<0, 0>> ELSE args.hr_size

\* shape of x_in: (None, None) only if not localcon_layer and h_hr == w_hr
UnetInputShape ==
    IF ~args.localcon_layer /\ args.hr_size[1] = args.hr_size[2]
    THEN <<0, 0>> ELSE args.hr_size

\* the doubling without the cap
NextFiltersUncapped(n) == n * 2

\* n_filters = min(256, n_filters * 2)
NextFilters(n) == Min(FilterCap, n * 2)

\* the two checkarg calls, then the call of _check_nblocks(hr_size, n_blocks)
UnetCheckArgs ==
    /\ fn = "unet_pin"
    /\ pc = "start"
    /\ IF ArgsRejected
       THEN pc' = "error" /\ err' = "ValueError" /\ power' = power
       ELSE pc' = "check_nblocks" /\ err' = err /\ power' = n_blocks
    /\ UNCHANGED <<frame, model, nodes, n_blocks, ndiag, locals>>

\* the Input layers; x = x_in; enconding_filters = []; n_filters_list = []
UnetInputs ==
    /\ fn = "unet_pin"
    /\ pc = "inputs"
    /\ LET g1 == IF AuxvarArrayIsGiven
                 THEN Append(nodes, InputNode(UnetAuxInputShape, args.n_aux_channels))
                 ELSE nodes
           g2 == Append(g1, InputNode(UnetInputShape, args.n_channels))
       IN  /\ s_in' = IF AuxvarArrayIsGiven THEN Out(g1, 0) ELSE NoTensor
           /\ x_in' = Out(g2, 0)
           /\ x' = Out(g2, 0)
           /\ nodes' = g2
    /\ enconding_filters' = <<>>
    /\ n_filters_list' = <<>>
    /\ i' = 0
    /\ pc' = "encode"
    /\ UNCHANGED <<frame, err, model, backbone_block, dropout_variant, n_blocks,
                   n_filters, power, ndiag, b, j>>

\* one iteration of for i in range(n_blocks): an EncoderBlock, its skip tensor
\* and its filter count recorded, the filter count doubled up to the cap
UnetEncode ==
    /\ fn = "unet_pin"
    /\ pc = "encode"
    /\ i < n_blocks
    /\ LET g1 == CallNamed(nodes, "EncoderBlock", <<"", i + 1>>, n_filters, <<x>>)
       IN  /\ nodes' = g1
           /\ x' = Out(g1, 0)
           /\ enconding_filters' = Append(enconding_filters, Out(g1, 1))
    /\ n_filters_list' = Append(n_filters_list, n_filters)
    /\ n_filters' = NextFilters(n_filters)
    /\ i' = i + 1
    /\ UNCHANGED <<frame, pc, err, model, backbone_block, dropout_variant,
                   n_blocks, power, ndiag, s_in, x_in, b, j>>

\* the bottleneck ConvBlock; n_filters_list = n_filters_list[::-1]
UnetBottleneck ==
    /\ fn = "unet_pin"
    /\ pc = "encode"
    /\ ~(i < n_blocks)
    /\ LET g1 == CallNamed(nodes, "ConvBlock", <<"Bottleneck", 0>>, n_filters, <<x>>)
       IN  nodes' = g1 /\ x' = Out(g1, 0)
    /\ n_filters_list' = Reverse(n_filters_list)
    /\ j' = 0
    /\ pc' = IF Len(enconding_filters) > 0 THEN "upsample" ELSE "localcon"
    /\ UNCHANGED <<frame, err, model, backbone_block, dropout_variant, n_blocks,
                   n_filters, power, ndiag, s_in, x_in, b, i, enconding_filters>>

\* the upsampling of decoder stage j: n_filters = n_filters_list[j], then the
\* branch of decoder_upsampling (no branch for a value outside spc, rc, dc)
UnetUpsample ==
    /\ fn = "unet_pin"
    /\ pc = "upsample"
    /\ n_filters' = n_filters_list[j + 1]
    /\ LET nf == n_filters_list[j + 1]
           g1 == CASE args.decoder_upsampling = "spc" ->
                        CallNamed(nodes, "SubpixelConvolutionBlock",
                                  <<"", j + 1>>, nf, <<x>>)
                   [] args.decoder_upsampling = "rc" ->
                        CallNamed(nodes, "UpSampling2D",
                                  <<"BilinearUpsampling", j + 1>>, 0, <<x>>)
                   [] args.decoder_upsampling = "dc" ->
                        CallNamed(nodes, "DeconvolutionBlock",
                                  <<"", j + 1>>, nf, <<x>>)
                   [] OTHER -> nodes
       IN  nodes' = g1 /\ x' = IF g1 = nodes THEN x ELSE Out(g1, 0)
    /\ pc' = "skip"
    /\ UNCHANGED <<frame, err, model, backbone_block, dropout_variant, n_blocks,
                   power, ndiag, s_in, x_in, b, i, j, enconding_filters,
                   n_filters_list>>

\* skip_connection of decoder stage j in enumerate(reversed(enconding_filters))
SkipConnection(k) == Reverse(enconding_filters)[k + 1]

\* PadConcat([x, skip_connection]) and the decoder ConvBlock of stage j
UnetSkipConv ==
    /\ fn = "unet_pin"
    /\ pc = "skip"
    /\ LET g1 == CallNamed(nodes, "PadConcat", <<"_SkipConnection", j + 1>>, 0,
                           <<x, SkipConnection(j)>>)
           g2 == CallNamed(g1, "ConvBlock", <<"DecoderConvBlock", j + 1>>,
                           n_filters, <<Out(g1, 0)>>)
       IN  nodes' = g2 /\ x' = Out(g2, 0)
    /\ j' = j + 1
    /\ pc' = IF j + 1 < Len(enconding_filters) THEN "upsample" ELSE "localcon"
    /\ UNCHANGED <<frame, err, model, backbone_block, dropout_variant, n_blocks,
                   n_filters, power, ndiag, s_in, x_in, b, i, enconding_filters,
                   n_filters_list>>


(* ------------------------------ the calls ----------------------------- *)

\* the defaults of the signatures
DefaultArgs ==
    [backbone_block |-> "resnet", n_channels |-> 1, n_aux_channels |-> 0,
     n_filters |-> 32, n_blocks |-> 0, hr_size |-> <<8, 8>>,
     n_channels_out |-> 1, dropout_rate |-> 20, dropout_variant |-> "spatial",
     decoder_upsampling |-> "rc", localcon_layer |-> FALSE]

\* values outside the closed sets
BadBackbone == "transformer"
BadDropoutVariant == "bogus"
BadUpsampling == "nearest"

\* shapes of the direct calls of _check_nblocks
NbDims == (1..MaxDim) \cup {2 ^ k : k \in 0..MaxDimLog}

NbArgs ==
    {[DefaultArgs EXCEPT !.hr_size = <<h, w>>, !.n_blocks = d] :
        h \in NbDims, w \in NbDims, d \in 0..MaxDepth}

\* grids of the builder calls
BuildDims == {1, 3, 8, 64}
FilterChoices == {32, 200}
DropoutRates == {0, 20}

NetArgs ==
    {[DefaultArgs EXCEPT !.backbone_block = bb, !.dropout_variant = dv,
                         !.dropout_rate = dr, !.n_aux_channels = na,
                         !.n_filters = nf, !.n_blocks = nb,
                         !.hr_size = <<h, 8>>, !.localcon_layer = lc] :
        bb \in Backbones \cup {BadBackbone},
        dv \in DropoutVariants \cup {BadDropoutVariant},
        dr \in DropoutRates, na \in 0..MaxAux, nf \in FilterChoices,
        nb \in 0..MaxBlocks, h \in {3, 8}, lc \in BOOLEAN}

\* unet_pin only hands backbone_block and dropout_variant on to the blocks:
\* one of the two varies at a time
UnetChoices ==
    ((Backbones \cup {BadBackbone}) \X {"spatial"})
        \cup ({"resnet"} \X (DropoutVariants \cup {BadDropoutVariant}))

UnetArgs ==
    {[DefaultArgs EXCEPT !.backbone_block = c[1], !.dropout_variant = c[2],
                         !.n_aux_channels = na, !.n_filters = nf,
                         !.n_blocks = nb, !.hr_size = <<h, w>>,
                         !.localcon_layer = lc, !.decoder_upsampling = du] :
        c \in UnetChoices, na \in 0..MaxAux, nf \in FilterChoices,
        nb \in 0..MaxBlocks, h \in BuildDims, w \in BuildDims,
        lc \in BOOLEAN, du \in Upsamplings \cup {BadUpsampling}}

\* the state on entry of fn(a): the parameters bound, nothing built
Entry(f, a) ==
    /\ fn = f
    /\ args = a
    /\ pc = IF f = "_check_nblocks" THEN "check_nblocks" ELSE "start"
    /\ err = ""
    /\ model = NoModel
    /\ nodes = <<>>
    /\ backbone_block = a.backbone_block
    /\ dropout_variant = a.dropout_variant
    /\ n_blocks = a.n_blocks
    /\ n_filters = a.n_filters
    /\ power = a.n_blocks
    /\ ndiag = 0
    /\ s_in = NoTensor
    /\ x_in = NoTensor
    /\ x = NoTensor
    /\ b = NoTensor
    /\ i = 0
    /\ j = 0
    /\ enconding_filters = <<>>
    /\ n_filters_list = <<>>

Init ==
    /\ calls = 1
    /\ prevErr = ""
    /\ \/ \E a \in NbArgs : Entry("_check_nblocks", a)
       \/ \E a \in NetArgs : Entry("net_pin", a)
       \/ \E a \in UnetArgs : Entry("unet_pin", a)

\* a builder that raised is called again with the same arguments
CallAgain ==
    /\ pc = "error"
    /\ calls < MaxCalls
    /\ calls' = calls + 1
    /\ prevErr' = err
    /\ pc' = "start"
    /\ err' = ""
    /\ model' = NoModel
    /\ nodes' = <<>>
    /\ backbone_block' = args.backbone_block
    /\ dropout_variant' = args.dropout_variant
    /\ n_blocks' = args.n_blocks
    /\ n_filters' = args.n_filters
    /\ power' = args.n_blocks
    /\ ndiag' = 0
    /\ s_in' = NoTensor
    /\ x_in' = NoTensor
    /\ x' = NoTensor
    /\ b' = NoTensor
    /\ i' = 0
    /\ j' = 0
    /\ enconding_filters' = <<>>
    /\ n_filters_list' = <<>>
    /\ UNCHANGED <<fn, args>>

Next ==
    \/ CheckNblocksLoop
    \/ CheckNblocksReturn
    \/ NetCheckArgs
    \/ NetInputs
    \/ NetBlock
    \/ NetPostConv
    \/ NetDropout
    \/ NetMerge
    \/ UnetCheckArgs
    \/ UnetInputs
    \/ UnetEncode
    \/ UnetBottleneck
    \/ UnetUpsample
    \/ UnetSkipConv
    \/ Localcon
    \/ AuxFusion
    \/ LastConvs
    \/ ReturnModel
    \/ CallAgain

Spec == Init /\ [][Next]_vars


(* ------------------------------- claims ------------------------------- *)

\* _check_nblocks has returned: its direct call is done, or unet_pin has
\* rebound n_blocks to the returned depth
Validated ==
    \/ fn = "_check_nblocks" /\ pc = "done"
    \/ fn = "unet_pin" /\ pc \notin {"start", "check_nblocks", "error"}

\* depth e keeps both dimensions of the grid at 2 or more
Feasible(shape, e) == shape[1] \div (2 ^ e) >= 2 /\ shape[2] \div (2 ^ e) >= 2

\* C1: for a shape with h >= 2 and w >= 2 and a requested depth d >= 0,
\* _check_nblocks returns the largest depth e <= d with h // 2^e >= 2 and
\* w // 2^e >= 2; it returns d itself when d is feasible; (64, 64), 6 gives 5
\* and (256, 256), 6 gives 6.
C1_LargestFeasibleDepth ==
    (Validated /\ args.hr_size[1] >= 2 /\ args.hr_size[2] >= 2) =>
        /\ n_blocks \in 0..args.n_blocks
        /\ Feasible(args.hr_size, n_blocks)
        /\ \A e \in (n_blocks + 1)..args.n_blocks : ~Feasible(args.hr_size, e)
        /\ (Feasible(args.hr_size, args.n_blocks) => n_blocks = args.n_blocks)
        /\ (args.hr_size = <<64, 64>> /\ args.n_blocks = 6 => n_blocks = 5)
        /\ (args.hr_size = <<256, 256>> /\ args.n_blocks = 6 => n_blocks = 6)

\* a direct call that reduced the requested depth 6 of a 64 x 64 grid to 5
C1_Witness ==
    /\ fn = "_check_nblocks"
    /\ pc = "done"
    /\ args.hr_size = <<64, 64>>
    /\ args.n_blocks = 6
    /\ n_blocks = 5
    /\ ndiag = 1

\* C2: for every shape with positive dimensions and every requested depth
\* >= 0, the loop of _check_nblocks decreases the depth by one per iteration
\* and its condition is false by the time the depth reaches 0: the loop never
\* takes the depth below 0 and the returned depth is never below 0.
C2_DepthNeverBelowZero ==
    (args.hr_size[1] >= 1 /\ args.hr_size[2] >= 1 /\ args.n_blocks >= 0) =>
        /\ power = args.n_blocks - ndiag
        /\ power >= 0
        /\ (Validated => n_blocks >= 0)


\* the layer calls of the encoder stages, of the decoder stages and of the
\* skip concatenations, in the order they were made
EncoderNodes == SelectSeq(nodes, LAMBDA nd : nd.layer = "EncoderBlock")
DecoderNodes == SelectSeq(nodes, LAMBDA nd : nd.name[1] = "DecoderConvBlock")
SkipNodes == SelectSeq(nodes, LAMBDA nd : nd.layer = "PadConcat")

FiltersOf(seq) == [k \in 1..Len(seq) |-> seq[k].filters]

\* unet_pin has left its decoder loop
Decoded ==
    fn = "unet_pin" /\ pc \in {"localcon", "aux", "head", "return", "done"}

\* the skip tensor recorded by encoder stage k (1-based): the second output of
\* the k-th EncoderBlock call
IsSkipOf(t, k) ==
    /\ IsTensor(t)
    /\ t.port = 1
    /\ nodes[t.node].layer = "EncoderBlock"
    /\ nodes[t.node].name = <<"", k>>

\* the places (layer call, input position) that consume the skip tensor of
\* encoder stage k
SkipUses(k) ==
    {u \in (1..Len(nodes)) \X (1..2) :
        /\ u[2] <= Len(nodes[u[1]].ins)
        /\ IsSkipOf(nodes[u[1]].ins[u[2]], k)}

\* C3: in unet_pin the number of encoder stages and the number of decoder
\* stages both equal the depth returned by _check_nblocks, and decoder stage
\* j (0-based) concatenates the skip tensor of encoder stage n-1-j, each skip
\* tensor being consumed exactly once.
C3_StagesEqualEffectiveDepth ==
    Decoded =>
        /\ Len(EncoderNodes) = n_blocks
        /\ Len(DecoderNodes) = n_blocks
        /\ Len(SkipNodes) = n_blocks
        /\ \A k \in 0..(n_blocks - 1) :
              /\ SkipNodes[k + 1].name = <<"_SkipConnection", k + 1>>
              /\ IsSkipOf(SkipNodes[k + 1].ins[2], n_blocks - k)
              /\ Cardinality(SkipUses(k + 1)) = 1

\* the encoder schedule: n_filters, then min(256, twice the previous count)
RECURSIVE Schedule(_, _)
Schedule(first, k) ==
    IF k <= 1 THEN first
    ELSE IF 2 * Schedule(first, k - 1) < 256 THEN 2 * Schedule(first, k - 1)
         ELSE 256

\* C4: the encoder filter counts start at n_filters and continue with
\* min(256, 2 x the previous count); decoder stage j uses the recorded count
\* of encoder stage n-1-j; n_filters = 32 and n_blocks = 4 give the encoder
\* [32, 64, 128, 256] and the decoder [256, 128, 64, 32].
C4_FilterScheduleMirrored ==
    fn = "unet_pin" =>
        /\ \A k \in 1..Len(EncoderNodes) :
              EncoderNodes[k].filters = Schedule(args.n_filters, k)
        /\ \A k \in 1..Len(DecoderNodes) :
              DecoderNodes[k].filters =
                  EncoderNodes[Len(EncoderNodes) + 1 - k].filters
        /\ (pc \in {"upsample", "skip"} =>
              n_filters_list = Reverse(FiltersOf(EncoderNodes)))
        /\ (Decoded /\ args.n_filters = 32 /\ n_blocks = 4 =>
              /\ FiltersOf(EncoderNodes) = <<32, 64, 128, 256>>
              /\ FiltersOf(DecoderNodes) = <<256, 128, 64, 32>>)

\* a finished unet_pin call with five stages, the fifth held at the cap
C4_Witness ==
    /\ fn = "unet_pin"
    /\ pc = "done"
    /\ args.n_filters = 32
    /\ FiltersOf(EncoderNodes) = <<32, 64, 128, 256, 256>>
    /\ FiltersOf(DecoderNodes) = <<256, 256, 128, 64, 32>>


Builder == fn \in {"net_pin", "unet_pin"}

\* the call was given a backbone or a dropout variant outside the closed sets
ArgsInvalid ==
    \/ args.backbone_block \notin {"convnet", "resnet", "densenet"}
    \/ args.dropout_variant \notin {"None", "gaussian", "spatial", "mcdrop",
                                    "mcgaussiandrop", "mcspatialdrop"}

\* C5: in both builders an unrecognized backbone or dropout variant is
\* rejected with an argument error before any graph node is created; the
\* failure leaves no partial state, and the same call made again fails with
\* the same error.
C5_InvalidArgsRejectedFirst ==
    (Builder /\ ArgsInvalid) =>
        /\ pc \in {"start", "error"}
        /\ nodes = <<>>
        /\ model = NoModel
        /\ s_in = NoTensor /\ x_in = NoTensor /\ x = NoTensor /\ b = NoTensor
        /\ (pc = "error" => err = "ValueError")
        /\ (calls > 1 => prevErr = "ValueError")

\* unet_pin called a second time with the same unknown dropout variant has
\* raised the same error, with nothing built
C5_Witness ==
    /\ fn = "unet_pin"
    /\ args.dropout_variant = BadDropoutVariant
    /\ calls = 2
    /\ pc = "error"
    /\ err = "ValueError"
    /\ prevErr = err
    /\ nodes = <<>>

\* C6: in unet_pin a decoder_upsampling outside {spc, rc, dc} raises an
\* argument error before any graph node is created; no model is ever returned
\* for it.
C6_InvalidUpsamplingRejected ==
    (fn = "unet_pin" /\ args.decoder_upsampling \notin {"spc", "rc", "dc"}) =>
        /\ nodes = <<>>
        /\ model = NoModel
        /\ pc # "done"

InputNodes == SelectSeq(nodes, LAMBDA nd : nd.layer = "Input")

\* the graph holds the auxiliary branch: a ConvBlock fed by an Input other
\* than the primary one, whose output is the second input of a Concatenate
AuxBranch ==
    \E n \in 1..Len(nodes), m \in 1..Len(nodes) :
        /\ nodes[n].layer = "ConvBlock"
        /\ Len(nodes[n].ins) = 1
        /\ nodes[n].ins[1].node # x_in.node
        /\ nodes[nodes[n].ins[1].node].layer = "Input"
        /\ nodes[m].layer = "Concatenate"
        /\ nodes[m].ins[2].node = n

\* the Input layers of the call have been created
InputsMade ==
    /\ Builder
    /\ pc \notin {"start", "check_nblocks", "inputs"}
    /\ ~(pc = "error" /\ err = "ValueError")

\* C7: in both builders the auxiliary input exists iff n_aux_channels > 0,
\* and the returned model has the inputs [primary, auxiliary] and the
\* auxiliary ConvBlock-plus-Concatenate branch when n_aux_channels > 0, and
\* the single input [primary] and no auxiliary branch when it is 0.
C7_AuxInputIffAuxChannels ==
    /\ InputsMade =>
          /\ Len(InputNodes) = IF args.n_aux_channels > 0 THEN 2 ELSE 1
          /\ (IsTensor(s_in) <=> args.n_aux_channels > 0)
    /\ (Builder /\ pc = "done") =>
          /\ Len(model.inputs) = IF args.n_aux_channels > 0 THEN 2 ELSE 1
          /\ model.inputs[1] = x_in
          /\ nodes[x_in.node].layer = "Input"
          /\ x_in.ch = args.n_channels
          /\ (args.n_aux_channels > 0 =>
                /\ model.inputs[2] = s_in
                /\ s_in # x_in
                /\ nodes[s_in.node].layer = "Input"
                /\ s_in.ch = args.n_aux_channels)
          /\ (AuxBranch <=> args.n_aux_channels > 0)

\* a finished net_pin call with an auxiliary input: two inputs and the branch
C7_Witness ==
    /\ fn = "net_pin"
    /\ pc = "done"
    /\ args.n_aux_channels > 0
    /\ Len(model.inputs) = 2
    /\ AuxBranch

\* C8: in net_pin every input is fixed to hr_size iff localcon_layer and is
\* unconstrained otherwise; in unet_pin every input is unconstrained iff
\* localcon_layer is false and hr_size is square, and fixed to hr_size
\* otherwise; so localcon_layer leaves no input unconstrained, and the
\* primary and the auxiliary input follow the same policy.
C8_InputShapePolicy ==
    Builder =>
        \A n \in 1..Len(nodes) :
            nodes[n].layer = "Input" =>
                /\ (fn = "net_pin" =>
                      nodes[n].shape = IF args.localcon_layer
                                       THEN args.hr_size ELSE <<0, 0>>)
                /\ (fn = "unet_pin" =>
                      nodes[n].shape =
                          IF ~args.localcon_layer
                             /\ args.hr_size[1] = args.hr_size[2]
                          THEN <<0, 0>> ELSE args.hr_size)
                /\ (args.localcon_layer => nodes[n].shape # <<0, 0>>)

\* a finished unet_pin call on a non-square grid without localcon_layer: both
\* inputs are fixed to hr_size
C8_Witness ==
    /\ fn = "unet_pin"
    /\ pc = "done"
    /\ ~args.localcon_layer
    /\ args.hr_size[1] # args.hr_size[2]
    /\ Len(InputNodes) = 2
    /\ \A k \in 1..2 : InputNodes[k].shape = args.hr_size

\* C9: in net_pin, whenever dropout_rate > 0, the value of b that is merged
\* into x is, for every dropout variant, the tensor obtained by calling that
\* variant's dropout layer on the output of the convolution: never a layer
\* object, never the un-dropped tensor.
C9_DropoutAppliedToB ==
    (fn = "net_pin" /\ pc = "merge" /\ args.dropout_rate > 0) =>
        /\ IsTensor(b)
        /\ nodes[b.node].layer = DropoutLayer(args.dropout_variant)
        /\ nodes[nodes[b.node].ins[1].node].layer = "Conv2D"

\* C10: in unet_pin, for each of spc, rc and dc and every decoder stage j,
\* the upsampling step yields a tensor of n_filters_list[j] channels at twice
\* the spatial size (the size of the stage's skip tensor), and rc is a
\* bilinear resize followed by a convolution.
C10_UpsamplingYieldsStageFilters ==
    (fn = "unet_pin" /\ pc = "skip"
        /\ args.decoder_upsampling \in {"spc", "rc", "dc"}) =>
        /\ x.ch = n_filters_list[j + 1]
        /\ x.level = SkipConnection(j).level
        /\ (args.decoder_upsampling = "rc" =>
              /\ nodes[x.node].layer = "Conv2D"
              /\ nodes[nodes[x.node].ins[1].node].layer = "UpSampling2D")

====
